---- MODULE Spec2Model ----
(***************************************************************************)
(* Model of ext/ephem/chebyshev/chebyshev.c: the two module functions      *)
(* Ephem::Computation::ChebyshevPolynomial.evaluate and                    *)
(* .evaluate_derivative (Clenshaw recurrence on three lock-step axes).     *)
(*                                                                         *)
(* A C double is modelled as an exact extended rational <<num, den>>       *)
(* (den > 0 in lowest terms; <<1,0>> = +Infinity, <<-1,0>> = -Infinity,    *)
(* <<0,0>> = NaN).  All inputs drawn below are small dyadic rationals, on  *)
(* which IEEE-754 double arithmetic is exact as well.  Signed zero is not  *)
(* distinguished.                                                          *)
(*                                                                         *)
(* A Ruby VALUE is a record [type, fix, flo, ary]: type is the T_xxx tag,  *)
(* fix the integer of a Fixnum, flo the double of a Float, ary the element *)
(* sequence of an Array.                                                   *)
(***************************************************************************)
EXTENDS Integers, Sequences, FiniteSets, TLC

VARIABLES heap, args, pc, frame, ret, ncalls

vars == <<heap, args, pc, frame, ret, ncalls>>

(* ------------------------------ bounds --------------------------------- *)

MaxN == 3

NThreads == 2

MaxCalls == 2

(* --------------------------- C double arithmetic ----------------------- *)

Abs(i) == IF i < 0 THEN -i ELSE i

Sign(i) == IF i < 0 THEN -1 ELSE IF i > 0 THEN 1 ELSE 0

RECURSIVE GCD(_, _)
GCD(a, b) == IF b = 0 THEN a ELSE GCD(b, a % b)

Norm(n, d) ==
    IF d = 0 THEN <<Sign(n), 0>>
    ELSE LET g == GCD(Abs(n), Abs(d))
             s == Sign(d)
         IN <<(s * n) \div g, (s * d) \div g>>

Zero == <<0, 1>>

One == <<1, 1>>

NaN == <<0, 0>>

Dbl(i) == <<i, 1>>

DNeg(x) == <<-x[1], x[2]>>

DAdd(x, y) ==
    IF x[2] = 0 /\ y[2] = 0 THEN (IF x[1] = y[1] THEN x ELSE NaN)
    ELSE IF x[2] = 0 THEN x
    ELSE IF y[2] = 0 THEN y
    ELSE Norm(x[1] * y[2] + y[1] * x[2], x[2] * y[2])

DSub(x, y) == DAdd(x, DNeg(y))

DMul(x, y) == Norm(x[1] * y[1], x[2] * y[2])

DDiv(x, y) ==
    IF y = Zero THEN Norm(x[1], 0)
    ELSE DMul(x, <<y[2] * Sign(y[1]), Abs(y[1])>>)

(* ------------------------------ Ruby values ---------------------------- *)

Qnil == [type |-> "T_NIL", fix |-> 0, flo |-> Zero, ary |-> <<>>]

Fix(i) == [type |-> "T_FIXNUM", fix |-> i, flo |-> Zero, ary |-> <<>>]

Flt(x) == [type |-> "T_FLOAT", fix |-> 0, flo |-> x, ary |-> <<>>]

Str == [type |-> "T_STRING", fix |-> 0, flo |-> Zero, ary |-> <<>>]

Ary(s) == [type |-> "T_ARRAY", fix |-> 0, flo |-> Zero, ary |-> s]

(* Check_Type(v, T_ARRAY): TRUE when it passes, FALSE when it raises.      *)
Check_Type(v, t) == v.type = t

(* NUM2DBL(v): ok = FALSE when it raises TypeError (nil, String, ...).     *)
NUM2DBL_lenient(v) ==
    [ok |-> v.type \in {"T_FLOAT", "T_FIXNUM", "T_NIL", "T_STRING"},
     d  |-> IF v.type = "T_FIXNUM" THEN Dbl(v.fix) ELSE v.flo]

NUM2DBL_trunc(v) ==
    [ok |-> v.type \in {"T_FLOAT", "T_FIXNUM"},
     d  |-> IF v.type = "T_FIXNUM" THEN Dbl(v.fix)
            ELSE IF v.flo[2] = 0 THEN v.flo
            ELSE Dbl(Sign(v.flo[1]) * (Abs(v.flo[1]) \div v.flo[2]))]

NUM2DBL(v) ==
    [ok |-> v.type \in {"T_FLOAT", "T_FIXNUM"},
     d  |-> IF v.type = "T_FIXNUM" THEN Dbl(v.fix) ELSE v.flo]

RARRAY_LEN(v) == Len(v.ary)

(* rb_ary_entry: a negative offset counts from the end; out of range: nil. *)
rb_ary_entry(v, offset) ==
    LET len == Len(v.ary)
        o   == IF offset < 0 THEN offset + len ELSE offset
    IN IF o < 0 \/ o >= len THEN Qnil ELSE v.ary[o + 1]

DBL2NUM(x) == Flt(x)

rb_ary_new_from_args3(a, b, c) == Ary(<<a, b, c>>)

SECONDS_PER_DAY == <<86400, 1>>

(* ------------------------- outcomes of a call -------------------------- *)

NoRet == [kind |-> "none", val |-> Qnil]

Raise == [kind |-> "raise", val |-> Qnil]

Return(v) == [kind |-> "value", val |-> v]

(* ----------------------- automatic variables --------------------------- *)

Vec0 == <<Zero, Zero, Zero>>

(* The locals of one invocation; "assigned" is the set of locals written   *)
(* so far (a fresh frame has indeterminate contents and none is read       *)
(* before it is written).                                                  *)
FreshFrame ==
    [n |-> 0, k |-> 0, t |-> Zero, t2 |-> Zero, radius |-> Zero,
     scale |-> Zero, k2 |-> Zero,
     b1 |-> Vec0, b2 |-> Vec0, d1 |-> Vec0, d2 |-> Vec0,
     c |-> Vec0, tx |-> Vec0, assigned |-> {}]

(* c0, c1, c2 = NUM2DBL(rb_ary_entry(c_ary, 0..2)) behind Check_Type.      *)
ReadVec(rb_coeffs, k) ==
    LET c_ary == rb_ary_entry(rb_coeffs, k)
        n0 == NUM2DBL(rb_ary_entry(c_ary, 0))
        n1 == NUM2DBL(rb_ary_entry(c_ary, 1))
        n2 == NUM2DBL(rb_ary_entry(c_ary, 2))
    IN [ok |-> Check_Type(c_ary, "T_ARRAY") /\ n0.ok /\ n1.ok /\ n2.ok,
        c  |-> <<n0.d, n1.d, n2.d>>]

Step(pcv, fr, rt) == [pc |-> pcv, fr |-> fr, ret |-> rt]

(* ------------------------ chebyshev_evaluate --------------------------- *)

EvalLoopCond_ge(k) == k >= 0

EvalLoopCond(k) == k > 0

(* tx = t2 * b1x - b2x + c0 (and y, z).                                    *)
ClenshawTerm(t2, b1, b2, c) ==
    [a \in 1..3 |-> DAdd(DSub(DMul(t2, b1[a]), b2[a]), c[a])]

(* t * b1x - b2x + c0 (and y, z): the degree-0 step, with t and not t2.    *)
FinalTerm_t2(fr, c) ==
    [a \in 1..3 |-> DAdd(DSub(DMul(fr.t2, fr.b1[a]), fr.b2[a]), c[a])]

FinalTerm(fr, c) ==
    [a \in 1..3 |-> DAdd(DSub(DMul(fr.t, fr.b1[a]), fr.b2[a]), c[a])]

EvalEntry(rb_coeffs, rb_t, fr) ==
    LET t == NUM2DBL(rb_t)
        n == RARRAY_LEN(rb_coeffs)
    IN IF ~Check_Type(rb_coeffs, "T_ARRAY") \/ ~t.ok
       THEN Step("done", fr, Raise)
       ELSE Step("e_loop",
                 [fr EXCEPT !.t = t.d, !.n = n, !.b1 = Vec0, !.b2 = Vec0,
                            !.t2 = DMul(Dbl(2), t.d), !.k = n - 1,
                            !.assigned = @ \cup {"t", "n", "b1", "b2", "t2", "k"}],
                 NoRet)

EvalLoop(rb_coeffs, fr) ==
    IF EvalLoopCond(fr.k)
    THEN LET r  == ReadVec(rb_coeffs, fr.k)
             tx == ClenshawTerm(fr.t2, fr.b1, fr.b2, r.c)
         IN IF ~r.ok
            THEN Step("done", fr, Raise)
            ELSE Step("e_loop",
                      [fr EXCEPT !.c = r.c, !.tx = tx, !.b2 = fr.b1, !.b1 = tx,
                                 !.k = @ - 1,
                                 !.assigned = @ \cup {"c", "tx"}],
                      NoRet)
    ELSE Step("e_final", fr, NoRet)

EvalFinal_emptyOk(rb_coeffs, fr) ==
    LET r == ReadVec(rb_coeffs, 0)
        v == FinalTerm(fr, IF r.ok THEN r.c ELSE Vec0)
    IN IF ~r.ok /\ fr.n > 0
       THEN Step("done", fr, Raise)
       ELSE Step("done", [fr EXCEPT !.c = r.c, !.assigned = @ \cup {"c"}],
                 Return(rb_ary_new_from_args3(DBL2NUM(v[1]), DBL2NUM(v[2]),
                                              DBL2NUM(v[3]))))

EvalFinal(rb_coeffs, fr) ==
    LET r == ReadVec(rb_coeffs, 0)
        v == FinalTerm(fr, r.c)
    IN IF ~r.ok
       THEN Step("done", fr, Raise)
       ELSE Step("done", [fr EXCEPT !.c = r.c, !.assigned = @ \cup {"c"}],
                 Return(rb_ary_new_from_args3(DBL2NUM(v[1]), DBL2NUM(v[2]),
                                              DBL2NUM(v[3]))))

(* ------------------- chebyshev_evaluate_derivative --------------------- *)

DerivShort_lt1(n) == n < 1

DerivShort(n) == n < 2

DerivLoopCond_ge(k) == k >= 0

DerivLoopCond(k) == k > 0

(* k2 = 2.0 * (double)k                                                    *)
K2_single(k) == Dbl(k)

K2(k) == DMul(Dbl(2), Dbl(k))

(* tx = t2 * d1x - d2x + k2 * c0 (and y, z).                               *)
DerivTerm(t2, d1, d2, k2, c) ==
    [a \in 1..3 |-> DAdd(DSub(DMul(t2, d1[a]), d2[a]), DMul(k2, c[a]))]

(* scale = SECONDS_PER_DAY / (2.0 * radius)                                *)
Scale_perday(radius) == DDiv(One, DMul(Dbl(2), radius))

Scale(radius) == DDiv(SECONDS_PER_DAY, DMul(Dbl(2), radius))

DerivEntry(rb_coeffs, rb_t, rb_radius, fr) ==
    LET t == NUM2DBL(rb_t)
        radius == NUM2DBL(rb_radius)
        n == RARRAY_LEN(rb_coeffs)
    IN IF ~Check_Type(rb_coeffs, "T_ARRAY") \/ ~t.ok \/ ~radius.ok
       THEN Step("done", fr, Raise)
       ELSE IF DerivShort(n)
       THEN Step("done",
                 [fr EXCEPT !.t = t.d, !.radius = radius.d, !.n = n,
                            !.assigned = @ \cup {"t", "radius", "n"}],
                 Return(rb_ary_new_from_args3(DBL2NUM(Zero), DBL2NUM(Zero),
                                              DBL2NUM(Zero))))
       ELSE Step("d_loop",
                 [fr EXCEPT !.t = t.d, !.radius = radius.d, !.n = n,
                            !.d1 = Vec0, !.d2 = Vec0,
                            !.t2 = DMul(Dbl(2), t.d), !.k = n - 1,
                            !.assigned = @ \cup {"t", "radius", "n", "d1", "d2",
                                                 "t2", "k"}],
                 NoRet)

DerivLoop(rb_coeffs, fr) ==
    IF DerivLoopCond(fr.k)
    THEN LET r  == ReadVec(rb_coeffs, fr.k)
             k2 == K2(fr.k)
             tx == DerivTerm(fr.t2, fr.d1, fr.d2, k2, r.c)
         IN IF ~r.ok
            THEN Step("done", fr, Raise)
            ELSE Step("d_loop",
                      [fr EXCEPT !.c = r.c, !.k2 = k2, !.tx = tx,
                                 !.d2 = fr.d1, !.d1 = tx, !.k = @ - 1,
                                 !.assigned = @ \cup {"c", "k2", "tx"}],
                      NoRet)
    ELSE Step("d_scale", fr, NoRet)

DerivScale(fr) ==
    LET scale == Scale(fr.radius)
    IN Step("done",
            [fr EXCEPT !.scale = scale, !.assigned = @ \cup {"scale"}],
            Return(rb_ary_new_from_args3(DBL2NUM(DMul(fr.d1[1], scale)),
                                         DBL2NUM(DMul(fr.d1[2], scale)),
                                         DBL2NUM(DMul(fr.d1[3], scale)))))

(* ------------- a whole call, run alone on a fresh frame ---------------- *)

StepOf(s, rb_coeffs, rb_t, rb_radius) ==
    CASE s.pc = "e_entry" -> EvalEntry(rb_coeffs, rb_t, s.fr)
      [] s.pc = "e_loop"  -> EvalLoop(rb_coeffs, s.fr)
      [] s.pc = "e_final" -> EvalFinal(rb_coeffs, s.fr)
      [] s.pc = "d_entry" -> DerivEntry(rb_coeffs, rb_t, rb_radius, s.fr)
      [] s.pc = "d_loop"  -> DerivLoop(rb_coeffs, s.fr)
      [] s.pc = "d_scale" -> DerivScale(s.fr)

RECURSIVE RunAlone(_, _, _, _)
RunAlone(s, rb_coeffs, rb_t, rb_radius) ==
    IF s.pc = "done" THEN s
    ELSE RunAlone(StepOf(s, rb_coeffs, rb_t, rb_radius), rb_coeffs, rb_t, rb_radius)

chebyshev_evaluate(rb_coeffs, rb_t) ==
    RunAlone(Step("e_entry", FreshFrame, NoRet), rb_coeffs, rb_t, Qnil).ret

chebyshev_evaluate_derivative(rb_coeffs, rb_t, rb_radius) ==
    RunAlone(Step("d_entry", FreshFrame, NoRet), rb_coeffs, rb_t, rb_radius).ret

(* ------------------------------- inputs -------------------------------- *)

Half == <<1, 2>>

EX == Ary(<<Fix(1), Fix(0), Fix(0)>>)

EY == Ary(<<Fix(0), Fix(1), Fix(0)>>)

EZ == Ary(<<Fix(0), Fix(0), Fix(1)>>)

EG == Ary(<<Fix(2), Flt(<<-1, 2>>), Fix(3)>>)

ELong == Ary(<<Fix(-1), Fix(0), Flt(Half), Fix(7)>>)

EShort == Ary(<<Fix(1), Fix(1)>>)

EStr == Ary(<<Fix(1), Str, Fix(0)>>)

Elems == {EX, EY, EZ, EG, ELong, EShort, EStr, Qnil}

CoeffArgs ==
    {Ary(s) : s \in UNION {[1..m -> Elems] : m \in 0..MaxN}} \cup {Qnil, Flt(One)}

TArgs == {Fix(0), Flt(Half), Flt(<<-1, 1>>), Fix(2), Flt(<<-1, 4>>), Qnil}

RadiusArgs == {Flt(Zero), Flt(Half), Fix(2), Qnil}

(* Objects shared by the threads of the concurrent specification.          *)
ConcHeap == <<Ary(<<EX, EG, EZ>>), Ary(<<EShort, EG>>), Ary(<<EG>>), Ary(<<>>)>>

ConcT == {Flt(Half), Fix(2)}

ConcRadius == {Fix(2)}

(* ---------------------------- state machine ---------------------------- *)

(* Each invocation has its own automatic storage.                          *)
FrameOf_static(p) == 1

FrameOf(p) == p

Threads == DOMAIN pc

NoArgs == [op |-> "none", rb_coeffs |-> 1, rb_t |-> Qnil, rb_radius |-> Qnil]

Coeffs(p) == heap[args[p].rb_coeffs]

Apply(p, s) ==
    /\ pc' = [pc EXCEPT ![p] = s.pc]
    /\ frame' = [frame EXCEPT ![FrameOf(p)] = s.fr]
    /\ ret' = [ret EXCEPT ![p] = s.ret]
    /\ UNCHANGED <<heap, args, ncalls>>

evaluate_entry(p) ==
    /\ pc[p] = "e_entry"
    /\ Apply(p, EvalEntry(Coeffs(p), args[p].rb_t, frame[FrameOf(p)]))

evaluate_loop(p) ==
    /\ pc[p] = "e_loop"
    /\ Apply(p, EvalLoop(Coeffs(p), frame[FrameOf(p)]))

evaluate_final(p) ==
    /\ pc[p] = "e_final"
    /\ Apply(p, EvalFinal(Coeffs(p), frame[FrameOf(p)]))

derivative_entry(p) ==
    /\ pc[p] = "d_entry"
    /\ Apply(p, DerivEntry(Coeffs(p), args[p].rb_t, args[p].rb_radius,
                           frame[FrameOf(p)]))

derivative_loop(p) ==
    /\ pc[p] = "d_loop"
    /\ Apply(p, DerivLoop(Coeffs(p), frame[FrameOf(p)]))

derivative_scale(p) ==
    /\ pc[p] = "d_scale"
    /\ Apply(p, DerivScale(frame[FrameOf(p)]))

(* A thread calls one of the two module functions on a shared object.      *)
Call(p) ==
    /\ pc[p] \in {"idle", "done"}
    /\ ncalls < MaxCalls
    /\ \E op \in {"evaluate", "evaluate_derivative"}, c \in DOMAIN heap,
          t \in ConcT, r \in ConcRadius :
          /\ args' = [args EXCEPT ![p] = [op |-> op, rb_coeffs |-> c, rb_t |-> t,
                                          rb_radius |-> r]]
          /\ pc' = [pc EXCEPT ![p] = IF op = "evaluate" THEN "e_entry" ELSE "d_entry"]
    /\ frame' = [frame EXCEPT ![FrameOf(p)] = FreshFrame]
    /\ ret' = [ret EXCEPT ![p] = NoRet]
    /\ ncalls' = ncalls + 1
    /\ UNCHANGED heap

(* One call, its arguments drawn from the input sets.                      *)
Init ==
    /\ \E c \in CoeffArgs : heap = <<c>>
    /\ \E t \in TArgs :
          \/ args = [p \in {1} |-> [op |-> "evaluate", rb_coeffs |-> 1, rb_t |-> t,
                                    rb_radius |-> Qnil]]
          \/ \E r \in RadiusArgs :
                args = [p \in {1} |-> [op |-> "evaluate_derivative", rb_coeffs |-> 1,
                                       rb_t |-> t, rb_radius |-> r]]
    /\ pc = [p \in {1} |-> IF args[p].op = "evaluate" THEN "e_entry" ELSE "d_entry"]
    /\ frame = [p \in {1} |-> FreshFrame]
    /\ ret = [p \in {1} |-> NoRet]
    /\ ncalls = 1

Next ==
    \E p \in Threads :
        \/ evaluate_entry(p)
        \/ evaluate_loop(p)
        \/ evaluate_final(p)
        \/ derivative_entry(p)
        \/ derivative_loop(p)
        \/ derivative_scale(p)

Spec == Init /\ [][Next]_vars

(* Several threads calling concurrently on shared coefficient records.     *)
InitConc ==
    /\ heap = ConcHeap
    /\ args = [p \in 1..NThreads |-> NoArgs]
    /\ pc = [p \in 1..NThreads |-> "idle"]
    /\ frame = [p \in 1..NThreads |-> FreshFrame]
    /\ ret = [p \in 1..NThreads |-> NoRet]
    /\ ncalls = 0

NextConc ==
    \E p \in Threads :
        \/ Call(p)
        \/ evaluate_entry(p)
        \/ evaluate_loop(p)
        \/ evaluate_final(p)
        \/ derivative_entry(p)
        \/ derivative_loop(p)
        \/ derivative_scale(p)

SpecConc == InitConc /\ [][NextConc]_vars

(* ------------------- vocabulary of the properties ---------------------- *)

IsNumeric(v) == v.type \in {"T_FIXNUM", "T_FLOAT"}

(* The real number a numeric VALUE denotes.                                *)
ValueOf(v) == IF v.type = "T_FIXNUM" THEN <<v.fix, 1>> ELSE v.flo

IsArray(v) == v.type = "T_ARRAY"

(* A 3-component numeric vector.                                           *)
IsVec3(e) == IsArray(e) /\ Len(e.ary) = 3 /\ \A i \in 1..3 : IsNumeric(e.ary[i])

(* Not a sequence, fewer than 3 components, or a non-numeric component     *)
(* among the first three.                                                  *)
Malformed(e) ==
    \/ ~IsArray(e)
    \/ Len(e.ary) < 3
    \/ \E i \in 1..3 : ~IsNumeric(e.ary[i])

WellFormed(c) == IsArray(c) /\ \A k \in 1..Len(c.ary) : IsVec3(c.ary[k])

(* Well formed from index 1 on; index 0 may be anything.                   *)
WellFormedAbove0(c) == IsArray(c) /\ \A k \in 2..Len(c.ary) : IsVec3(c.ary[k])

Coef(c, k, a) == ValueOf(c.ary[k + 1].ary[a])

(* Chebyshev polynomials of the first kind and their derivatives.          *)
RECURSIVE ChebT(_, _)
ChebT(k, t) ==
    IF k = 0 THEN One
    ELSE IF k = 1 THEN t
    ELSE DSub(DMul(DMul(Dbl(2), t), ChebT(k - 1, t)), ChebT(k - 2, t))

RECURSIVE ChebDT(_, _)
ChebDT(k, t) ==
    IF k = 0 THEN Zero
    ELSE IF k = 1 THEN One
    ELSE DSub(DAdd(DMul(Dbl(2), ChebT(k - 1, t)),
                   DMul(DMul(Dbl(2), t), ChebDT(k - 1, t))),
              ChebDT(k - 2, t))

(* SUM_{k=lo..hi} coeffs[k][a] * T_k(t)                                    *)
RECURSIVE DirectSum(_, _, _, _, _)
DirectSum(c, a, t, lo, hi) ==
    IF hi < lo THEN Zero
    ELSE DAdd(DirectSum(c, a, t, lo, hi - 1), DMul(Coef(c, hi, a), ChebT(hi, t)))

(* SUM_{k=lo..hi} coeffs[k][a] * T_k'(t): d/dt of the series.              *)
RECURSIVE DerivSum(_, _, _, _, _)
DerivSum(c, a, t, lo, hi) ==
    IF hi < lo THEN Zero
    ELSE DAdd(DerivSum(c, a, t, lo, hi - 1), DMul(Coef(c, hi, a), ChebDT(hi, t)))

(* The three doubles of a returned array.                                  *)
RetVec(r) == [a \in 1..3 |-> r.val.ary[a].flo]

VecValue(v) == rb_ary_new_from_args3(DBL2NUM(v[1]), DBL2NUM(v[2]), DBL2NUM(v[3]))

Done(p, op) == pc[p] = "done" /\ args[p].op = op

NCoeffs(p) == Len(Coeffs(p).ary)

T(p) == ValueOf(args[p].rb_t)

Radius(p) == ValueOf(args[p].rb_radius)

Fr(p) == frame[FrameOf(p)]

Scalars == {Zero, <<-1, 1>>, Dbl(2), Half}

(* Every component of every coefficient vector scaled by s.                *)
ScaleRec(s, c) ==
    Ary([k \in 1..Len(c.ary) |->
            Ary([i \in 1..Len(c.ary[k].ary) |->
                    Flt(DMul(s, ValueOf(c.ary[k].ary[i])))])])

(* ------------------------------ properties ----------------------------- *)

(* C1: for a record of n >= 1 three-component numeric vectors and a        *)
(* numeric t, evaluate returns per axis the direct Chebyshev sum           *)
(* SUM_{k=0..n-1} coeffs[k][a] * T_k(t).                                   *)
C1_EvaluateIsChebyshevSum ==
    \A p \in Threads :
        (/\ Done(p, "evaluate")
         /\ WellFormed(Coeffs(p)) /\ NCoeffs(p) >= 1
         /\ IsNumeric(args[p].rb_t))
        => /\ ret[p].kind = "value"
           /\ \A a \in 1..3 :
                 RetVec(ret[p])[a] = DirectSum(Coeffs(p), a, T(p), 0, NCoeffs(p) - 1)

(* The scenario [[1,0,0],[0,1,0],[0,0,1]] at t = 0 gives (1, 0, -1).       *)
C1_Witness ==
    \E p \in Threads :
        /\ Done(p, "evaluate")
        /\ Coeffs(p) = Ary(<<EX, EY, EZ>>)
        /\ args[p].rb_t = Fix(0)
        /\ ret[p] = Return(VecValue(<<One, Zero, <<-1, 1>>>>))

C3_SingleCoefficientVerbatim ==
    \A p \in Threads :
        (/\ Done(p, "evaluate")
         /\ IsArray(Coeffs(p)) /\ NCoeffs(p) = 1 /\ IsVec3(Coeffs(p).ary[1])
         /\ IsNumeric(args[p].rb_t))
        => /\ ret[p].kind = "value"
           /\ \A a \in 1..3 : RetVec(ret[p])[a] = Coef(Coeffs(p), 0, a)
           /\ "tx" \notin Fr(p).assigned
           /\ Fr(p).b1 = Vec0 /\ Fr(p).b2 = Vec0

C3_Witness ==
    \E p \in Threads :
        /\ Done(p, "evaluate")
        /\ Coeffs(p) = Ary(<<EG>>)
        /\ args[p].rb_t = Fix(2)
        /\ ret[p] = Return(VecValue(<<Dbl(2), <<-1, 2>>, Dbl(3)>>))

(* C4: for an array of length n < 2 (whatever its element), numeric t and  *)
(* numeric radius (0 included), evaluate_derivative returns (0, 0, 0)      *)
(* without entering the recurrence or computing the scale factor.          *)
C4_ShortRecordZeroDerivative ==
    \A p \in Threads :
        (/\ Done(p, "evaluate_derivative")
         /\ IsArray(Coeffs(p)) /\ NCoeffs(p) < 2
         /\ IsNumeric(args[p].rb_t) /\ IsNumeric(args[p].rb_radius))
        => /\ ret[p] = Return(VecValue(Vec0))
           /\ Fr(p).assigned \cap {"d1", "d2", "t2", "k", "k2", "c", "tx", "scale"} = {}

C4_Witness ==
    \E p \in Threads :
        /\ Done(p, "evaluate_derivative")
        /\ Coeffs(p) = Ary(<<EG>>)
        /\ args[p].rb_radius = Flt(Zero)
        /\ ret[p] = Return(VecValue(Vec0))

(* C5: evaluate rejects the call, with no result, whenever coeffs is not a *)
(* sequence or some element at index 0..n-1 is not a sequence, has fewer   *)
(* than 3 components, or has a non-numeric component among its first 3.    *)
C5_EvaluateRejectsMalformed ==
    \A p \in Threads :
        (/\ Done(p, "evaluate")
         /\ \/ ~IsArray(Coeffs(p))
            \/ \E k \in 1..NCoeffs(p) : Malformed(Coeffs(p).ary[k]))
        => ret[p] = Raise

C5_Witness ==
    \E p \in Threads :
        /\ Done(p, "evaluate")
        /\ Coeffs(p) = Ary(<<EShort, EX, EY>>)
        /\ IsNumeric(args[p].rb_t)
        /\ ret[p] = Raise

(* C6 as stated: for numeric t and radius, evaluate_derivative rejects     *)
(* the call if and only if evaluate rejects it on the same coeffs and t.   *)
C6_SameValidation ==
    \A p \in Threads :
        /\ (Done(p, "evaluate_derivative") /\ IsNumeric(args[p].rb_t)
              /\ IsNumeric(args[p].rb_radius))
           => ((ret[p].kind = "raise")
                  <=> (chebyshev_evaluate(Coeffs(p), args[p].rb_t).kind = "raise"))
        /\ (Done(p, "evaluate") /\ IsNumeric(args[p].rb_t))
           => \A r \in {x \in RadiusArgs : IsNumeric(x)} :
                 (ret[p].kind = "raise")
                    <=> (chebyshev_evaluate_derivative(Coeffs(p), args[p].rb_t, r).kind
                            = "raise")

(* C6 amended: for numeric t and radius, evaluate_derivative rejects the   *)
(* call exactly when coeffs is not a sequence, or n >= 2 and some element  *)
(* at index 1..n-1 is malformed; whenever it rejects, evaluate rejects     *)
(* too.  It never inspects index 0 and accepts every array of length < 2.  *)
C6_DerivativeValidation ==
    \A p \in Threads :
        (Done(p, "evaluate_derivative") /\ IsNumeric(args[p].rb_t)
           /\ IsNumeric(args[p].rb_radius))
        => /\ (ret[p].kind = "raise")
                 <=> \/ ~IsArray(Coeffs(p))
                     \/ \E k \in 2..NCoeffs(p) : Malformed(Coeffs(p).ary[k])
           /\ (ret[p].kind = "raise")
                 => (chebyshev_evaluate(Coeffs(p), args[p].rb_t).kind = "raise")

(* A record whose index-0 element is too short is accepted by the          *)
(* derivative.                                                             *)
C6_Witness ==
    \E p \in Threads :
        /\ Done(p, "evaluate_derivative")
        /\ Coeffs(p) = Ary(<<EShort, EX, EZ>>)
        /\ IsNumeric(args[p].rb_t) /\ IsNumeric(args[p].rb_radius)
        /\ ret[p].kind = "value"

(* C7 as stated: evaluate on an empty record and a numeric t completes     *)
(* with a 3-component result.                                              *)
C7_EmptyAccepted ==
    \A p \in Threads :
        (Done(p, "evaluate") /\ Coeffs(p) = Ary(<<>>) /\ IsNumeric(args[p].rb_t))
        => (ret[p].kind = "value" /\ Len(ret[p].val.ary) = 3)

(* C7 amended: evaluate on an empty record and a numeric t rejects the     *)
(* call (index 0 reads nil, which fails the array check) and produces no   *)
(* result.                                                                 *)
C7_EmptyRejected ==
    \A p \in Threads :
        (Done(p, "evaluate") /\ Coeffs(p) = Ary(<<>>) /\ IsNumeric(args[p].rb_t))
        => /\ ret[p] = Raise
           /\ "c" \notin Fr(p).assigned

C7_Witness ==
    \E p \in Threads :
        /\ Done(p, "evaluate") /\ Coeffs(p) = Ary(<<>>)
        /\ args[p].rb_t = Flt(Half)
        /\ Fr(p).n = 0 /\ "b1" \in Fr(p).assigned
        /\ ret[p] = Raise

(* C8: for a well-formed record (n >= 1), numeric t and every constant s,  *)
(* evaluate(s * coeffs, t) = s * evaluate(coeffs, t) component-wise.       *)
C8_EvaluateLinear ==
    \A p \in Threads :
        (/\ Done(p, "evaluate")
         /\ WellFormed(Coeffs(p)) /\ NCoeffs(p) >= 1
         /\ IsNumeric(args[p].rb_t))
        => /\ ret[p].kind = "value"
           /\ \A s \in Scalars :
                 chebyshev_evaluate(ScaleRec(s, Coeffs(p)), args[p].rb_t)
                    = Return(VecValue([a \in 1..3 |-> DMul(s, RetVec(ret[p])[a])]))

C8_Witness ==
    \E p \in Threads :
        /\ Done(p, "evaluate")
        /\ Coeffs(p) = Ary(<<EX, EG, EG>>)
        /\ args[p].rb_t = Fix(2)
        /\ ret[p] = Return(VecValue(<<Dbl(19), <<-9, 2>>, Dbl(27)>>))
        /\ chebyshev_evaluate(ScaleRec(Dbl(2), Coeffs(p)), args[p].rb_t).kind = "value"

(* C9: under any interleaving of concurrent evaluate and                   *)
(* evaluate_derivative calls, and after earlier calls, every call returns  *)
(* what it returns when run alone on the same arguments, and the shared    *)
(* coefficient records are left unchanged.                                 *)
C9_Reentrant ==
    /\ heap = ConcHeap
    /\ \A p \in Threads :
          /\ Done(p, "evaluate")
             => ret[p] = chebyshev_evaluate(Coeffs(p), args[p].rb_t)
          /\ Done(p, "evaluate_derivative")
             => ret[p] = chebyshev_evaluate_derivative(Coeffs(p), args[p].rb_t,
                                                       args[p].rb_radius)

(* One call has returned a value while another thread is inside the loop   *)
(* of a call on the same record.                                           *)
C9_Witness ==
    \E p, q \in Threads :
        /\ p # q
        /\ pc[p] = "done" /\ ret[p].kind = "value"
        /\ pc[q] \in {"e_loop", "d_loop"}
        /\ Fr(q).k < Fr(q).n - 1
        /\ args[p].rb_coeffs = args[q].rb_coeffs
        /\ NCoeffs(p) = 3

(* C10 as stated: after the loop of evaluate_derivative (n >= 2), d1 is    *)
(* per axis the derivative of the series with respect to normalized time.  *)
C10_D1IsDerivative ==
    \A p \in Threads :
        (pc[p] = "d_scale" /\ WellFormedAbove0(Coeffs(p)))
        => \A a \in 1..3 :
              Fr(p).d1[a] = DerivSum(Coeffs(p), a, T(p), 1, NCoeffs(p) - 1)

(* C10 amended: after the loop of evaluate_derivative (n >= 2), d1 is per  *)
(* axis twice the derivative of the series with respect to normalized t    *)
(* (the loop adds 2k*coeffs[k]); it does not depend on coeffs[0].          *)
C10_D1IsTwiceDerivative ==
    \A p \in Threads :
        (pc[p] = "d_scale" /\ WellFormedAbove0(Coeffs(p)))
        => /\ NCoeffs(p) >= 2
           /\ \A a \in 1..3 :
                 Fr(p).d1[a] =
                     DMul(Dbl(2), DerivSum(Coeffs(p), a, T(p), 1, NCoeffs(p) - 1))

(* The loop has finished on a record whose index-0 element is not even a   *)
(* sequence, with d1 = (2, 0, 4) for coefficients [nil,[1,0,0],[0,0,1]]    *)
(* at t = 1/2.                                                             *)
C10_Witness ==
    \E p \in Threads :
        /\ pc[p] = "d_scale"
        /\ Coeffs(p) = Ary(<<Qnil, EX, EZ>>)
        /\ args[p].rb_t = Flt(Half)
        /\ Fr(p).d1 = <<Dbl(2), Zero, Dbl(4)>>

====
